---- MODULE Spec2Model ----
(***************************************************************************)
(* A model of url_to_standalone.py: the resource resolution and rewriting  *)
(* pipeline create_standalone_html with its helpers fetch_resource,        *)
(* get_mime_type, inline_css_resources and save_asset_to_file.             *)
(*                                                                         *)
(* Text is modelled as a sequence of one-character strings, so that the    *)
(* code's startswith / endswith / in / split / strip / join act on         *)
(* characters as they do in Python.  A document is a sequence of tags;     *)
(* each tag carries the attribute values the code's patterns look at.      *)
(***************************************************************************)
EXTENDS Integers, Sequences, FiniteSets, TLC

VARIABLES
    \* ---- get_mime_type driver ----
    mimeIn,      \* the (url, content_type) pair handed to get_mime_type
    mimeOut,     \* its return value, <<>> before the call
    \* ---- create_standalone_html ----
    pc,          \* position of the coordinating (calling) thread
    mode,        \* assets_mode
    folder,      \* assets_folder, <<>> for None
    removeScripts, \* remove_scripts
    maxWorkers,  \* max_workers
    input,       \* html as handed to the current call
    html,        \* the evolving document text
    stats,       \* the four counters of stats
    errors,      \* the errors list
    futures,     \* stylesheet pass: href -> state of its future
    cur,         \* re.sub cursor of passes 4-7 and of the CSS inliner
    mainFetch,   \* the fetch the coordinating thread is blocked in, or NoFetch
    fetchLog,    \* every requests.get issued by the current call, in order
    fs,          \* files written by save_asset_to_file: path -> bytes
    saveLog,     \* the calls of save_asset_to_file of the current call
    run,         \* number of the current call (the result can be re-converted)
    prevOk,      \* every fetch of the previous call returned content
    actor        \* thread that took the last step

mimeVars == <<mimeIn, mimeOut>>
pipeVars == <<pc, mode, folder, removeScripts, maxWorkers, input, html, stats,
              errors, futures, cur, mainFetch, fetchLog, fs, saveLog, run,
              prevOk, actor>>
vars == <<mimeIn, mimeOut, pc, mode, folder, removeScripts, maxWorkers, input,
          html, stats, errors, futures, cur, mainFetch, fetchLog, fs, saveLog,
          run, prevOk, actor>>

(***************************************************************************)
(* Text helpers (Python str methods on sequences of characters)            *)
(***************************************************************************)
UpperChars == <<"A","B","C","D","E","F","G","H","I","J","K","L","M",
                "N","O","P","Q","R","S","T","U","V","W","X","Y","Z">>
LowerChars == <<"a","b","c","d","e","f","g","h","i","j","k","l","m",
                "n","o","p","q","r","s","t","u","v","w","x","y","z">>

\* str.lower(), one character
LowerChar(c) ==
    IF \E i \in 1..26 : UpperChars[i] = c
    THEN LowerChars[CHOOSE i \in 1..26 : UpperChars[i] = c]
    ELSE c

\* str.upper(), one character
UpperChar(c) ==
    IF \E i \in 1..26 : LowerChars[i] = c
    THEN UpperChars[CHOOSE i \in 1..26 : LowerChars[i] = c]
    ELSE c

\* str.lower()
Lower(s) == [i \in 1..Len(s) |-> LowerChar(s[i])]

\* str.upper()
Upper(s) == [i \in 1..Len(s) |-> UpperChar(s[i])]

\* s.startswith(p)
StartsWith(s, p) == Len(p) <= Len(s) /\ SubSeq(s, 1, Len(p)) = p

\* s.endswith(p)
EndsWith(s, p) ==
    Len(p) <= Len(s) /\ SubSeq(s, Len(s) - Len(p) + 1, Len(s)) = p

\* the positions at which p occurs in s
Occurrences(s, p) ==
    {i \in 1..(Len(s) - Len(p) + 1) : SubSeq(s, i, i + Len(p) - 1) = p}

\* p in s
Contains(s, p) == Occurrences(s, p) # {}

\* the largest / smallest element of a non-empty set of integers
MaxOf(S) == CHOOSE x \in S : \A y \in S : y <= x
MinOf(S) == CHOOSE x \in S : \A y \in S : x <= y

(***************************************************************************)
(* get_mime_type                                                           *)
(***************************************************************************)
MimeCss == <<"t","e","x","t","/","c","s","s">>
MimeJs == <<"a","p","p","l","i","c","a","t","i","o","n","/",
            "j","a","v","a","s","c","r","i","p","t">>
MimePng == <<"i","m","a","g","e","/","p","n","g">>
MimeJpeg == <<"i","m","a","g","e","/","j","p","e","g">>
MimeGif == <<"i","m","a","g","e","/","g","i","f">>
MimeSvg == <<"i","m","a","g","e","/","s","v","g","+","x","m","l">>
MimeWebp == <<"i","m","a","g","e","/","w","e","b","p">>
MimeIco == <<"i","m","a","g","e","/","x","-","i","c","o","n">>
MimeWoff2 == <<"f","o","n","t","/","w","o","f","f","2">>
MimeWoff == <<"f","o","n","t","/","w","o","f","f">>
MimeTtf == <<"f","o","n","t","/","t","t","f">>
MimeEot == <<"a","p","p","l","i","c","a","t","i","o","n","/","v","n","d",".",
             "m","s","-","f","o","n","t","o","b","j","e","c","t">>
MimeOctet == <<"a","p","p","l","i","c","a","t","i","o","n","/",
               "o","c","t","e","t","-","s","t","r","e","a","m">>

\* The twelve tests of get_mime_type in source order: the keyword looked for
\* in the content type, the suffixes looked for in the URL, whether the URL
\* test is "in" (TRUE) or endswith (FALSE), and the value returned.
MimeRules == <<
    [kw |-> <<"c","s","s">>, exts |-> {<<".","c","s","s">>},
     anywhere |-> FALSE, mime |-> MimeCss],
    [kw |-> <<"j","a","v","a","s","c","r","i","p","t">>,
     exts |-> {<<".","j","s">>}, anywhere |-> FALSE, mime |-> MimeJs],
    [kw |-> <<"p","n","g">>, exts |-> {<<".","p","n","g">>},
     anywhere |-> FALSE, mime |-> MimePng],
    [kw |-> <<"j","p","e","g">>,
     exts |-> {<<".","j","p","g">>, <<".","j","p","e","g">>},
     anywhere |-> TRUE, mime |-> MimeJpeg],
    [kw |-> <<"g","i","f">>, exts |-> {<<".","g","i","f">>},
     anywhere |-> FALSE, mime |-> MimeGif],
    [kw |-> <<"s","v","g">>, exts |-> {<<".","s","v","g">>},
     anywhere |-> FALSE, mime |-> MimeSvg],
    [kw |-> <<"w","e","b","p">>, exts |-> {<<".","w","e","b","p">>},
     anywhere |-> FALSE, mime |-> MimeWebp],
    [kw |-> <<"i","c","o">>, exts |-> {<<".","i","c","o">>},
     anywhere |-> FALSE, mime |-> MimeIco],
    [kw |-> <<"w","o","f","f","2">>, exts |-> {<<".","w","o","f","f","2">>},
     anywhere |-> FALSE, mime |-> MimeWoff2],
    [kw |-> <<"w","o","f","f">>, exts |-> {<<".","w","o","f","f">>},
     anywhere |-> FALSE, mime |-> MimeWoff],
    [kw |-> <<"t","t","f">>, exts |-> {<<".","t","t","f">>},
     anywhere |-> FALSE, mime |-> MimeTtf],
    [kw |-> <<"e","o","t">>, exts |-> {<<".","e","o","t">>},
     anywhere |-> FALSE, mime |-> MimeEot] >>

\* one "if kw in content_type_lower or url_lower.endswith(ext)" test
MimeRuleFires(r, url_lower, content_type_lower) ==
    \/ Contains(content_type_lower, r.kw)
    \/ \E e \in r.exts :
          IF r.anywhere THEN Contains(url_lower, e) ELSE EndsWith(url_lower, e)

\* get_mime_type(url, content_type)
GetMimeType(url, content_type) ==
    LET url_lower == Lower(url)
        content_type_lower == Lower(content_type)
        fired == {k \in 1..Len(MimeRules) :
                     MimeRuleFires(MimeRules[k], url_lower, content_type_lower)}
    IN  IF fired # {} THEN MimeRules[MinOf(fired)].mime
        ELSE IF content_type # <<>> THEN content_type
        ELSE MimeOctet

(***************************************************************************)
(* More text helpers: split / strip / join                                 *)
(***************************************************************************)
IsSpace(c) == c \in {" ", "\n", "\t"}

RECURSIVE SplitOn(_, _)
\* s.split(c) for a one-character separator c
SplitOn(s, c) ==
    LET at == {i \in 1..Len(s) : s[i] = c}
    IN  IF at = {} THEN <<s>>
        ELSE <<SubSeq(s, 1, MinOf(at) - 1)>>
             \o SplitOn(SubSeq(s, MinOf(at) + 1, Len(s)), c)

\* s.strip()
Strip(s) ==
    LET keep == {i \in 1..Len(s) : ~IsSpace(s[i])}
    IN  IF keep = {} THEN <<>> ELSE SubSeq(s, MinOf(keep), MaxOf(keep))

RECURSIVE SplitWs(_)
\* s.split(): the whitespace-separated pieces, none of them empty
SplitWs(s) ==
    LET t == Strip(s)
        sp == {i \in 1..Len(t) : IsSpace(t[i])}
    IN  IF t = <<>> THEN <<>>
        ELSE IF sp = {} THEN <<t>>
        ELSE <<SubSeq(t, 1, MinOf(sp) - 1)>>
             \o SplitWs(SubSeq(t, MinOf(sp) + 1, Len(t)))

RECURSIVE Join(_, _)
\* sep.join(parts)
Join(parts, sep) ==
    IF parts = <<>> THEN <<>>
    ELSE IF Len(parts) = 1 THEN parts[1]
    ELSE parts[1] \o sep \o Join(Tail(parts), sep)

(***************************************************************************)
(* Bytes, str.encode / bytes.decode, base64.b64encode                      *)
(***************************************************************************)
\* the characters of codes 32..126 (codes 92 and 96 are written by name)
Printable == <<
    " ", "!", "\"", "#", "$", "%", "&", "'", "(", ")", "*", "+",
    ",", "-", ".", "/", "0", "1", "2", "3", "4", "5", "6", "7",
    "8", "9", ":", ";", "<", "=", ">", "?", "@", "A", "B", "C",
    "D", "E", "F", "G", "H", "I", "J", "K", "L", "M", "N", "O",
    "P", "Q", "R", "S", "T", "U", "V", "W", "X", "Y", "Z", "[",
    "BACKSLASH", "]", "^", "_", "BACKTICK", "a", "b", "c", "d", "e", "f", "g",
    "h", "i", "j", "k", "l", "m", "n", "o", "p", "q", "r", "s",
    "t", "u", "v", "w", "x", "y", "z", "{", "|", "}", "~" >>

\* chr(b) for the bytes the model uses: printable ASCII, newline, and the
\* latin-1 character of a byte above 127 (named by its code point)
CharOfByte(b) ==
    IF b \in 32..126 THEN Printable[b - 31]
    ELSE IF b = 10 THEN "\n"
    ELSE IF b = 137 THEN "U+0089"
    ELSE "U+00??"

\* ord(c) of a printable ASCII character (url.encode() of an ASCII url)
ByteOfChar(c) ==
    IF \E i \in 1..Len(Printable) : Printable[i] = c
    THEN 31 + (CHOOSE i \in 1..Len(Printable) : Printable[i] = c)
    ELSE 63

\* content.decode(encoding) for encoding in utf-8, latin-1, cp1252, then
\* utf-8 with errors='replace'.  A payload of the model is valid UTF-8 iff
\* it is pure ASCII; latin-1 decodes every byte, so the loop ends there.
DecodeCss(content) ==
    [i \in 1..Len(content) |-> CharOfByte(content[i])]

B64Alphabet == <<
    "A", "B", "C", "D", "E", "F", "G", "H", "I", "J", "K", "L", "M", "N", "O", "P",
    "Q", "R", "S", "T", "U", "V", "W", "X", "Y", "Z", "a", "b", "c", "d", "e", "f",
    "g", "h", "i", "j", "k", "l", "m", "n", "o", "p", "q", "r", "s", "t", "u", "v",
    "w", "x", "y", "z", "0", "1", "2", "3", "4", "5", "6", "7", "8", "9", "+", "/" >>

RECURSIVE B64Encode(_)
\* base64.b64encode(content).decode('utf-8')
B64Encode(bs) ==
    IF bs = <<>> THEN <<>>
    ELSE IF Len(bs) = 1 THEN
        << B64Alphabet[(bs[1] \div 4) + 1],
           B64Alphabet[((bs[1] % 4) * 16) + 1], "=", "=" >>
    ELSE IF Len(bs) = 2 THEN
        << B64Alphabet[(bs[1] \div 4) + 1],
           B64Alphabet[((bs[1] % 4) * 16 + (bs[2] \div 16)) + 1],
           B64Alphabet[((bs[2] % 16) * 4) + 1], "=" >>
    ELSE
        << B64Alphabet[(bs[1] \div 4) + 1],
           B64Alphabet[((bs[1] % 4) * 16 + (bs[2] \div 16)) + 1],
           B64Alphabet[((bs[2] % 16) * 4 + (bs[3] \div 64)) + 1],
           B64Alphabet[(bs[3] % 64) + 1] >>
        \o B64Encode(SubSeq(bs, 4, Len(bs)))

DataScheme == <<"d","a","t","a",":">>
Base64Marker == <<";","b","a","s","e","6","4",",">>

\* f'data:{mime};base64,{b64}'
DataUrl(mime, content) ==
    DataScheme \o mime \o Base64Marker \o B64Encode(content)

(***************************************************************************)
(* urllib.parse.urljoin / urlparse, for the references of the model:       *)
(* an absolute URL, a network-path reference (//host/...), an absolute     *)
(* path, or a relative path without dot segments.                          *)
(***************************************************************************)
BaseUrl == <<"h","t","t","p","s",":","/","/","e","x",".","c","o","m","/">>

\* raised by urlsplit: ValueError("Invalid IPv6 URL")
UrlError == <<"ValueError">>

SchemeChars ==
    {LowerChars[i] : i \in 1..26} \cup {UpperChars[i] : i \in 1..26}
    \cup {"0","1","2","3","4","5","6","7","8","9","+","-","."}

\* length of the "scheme:" prefix of url, 0 if it has none
SchemeLen(url) ==
    LET colons == {i \in 1..Len(url) : url[i] = ":"}
    IN  IF colons = {} THEN 0
        ELSE LET k == MinOf(colons)
             IN  IF k > 1 /\ url[1] \notin {"0","1","2","3","4","5","6","7","8","9","+","-","."}
                          /\ \A i \in 1..(k - 1) : url[i] \in SchemeChars
                 THEN k ELSE 0

\* s up to (not including) the first character of stops
UpTo(s, stops) ==
    LET at == {i \in 1..Len(s) : s[i] \in stops}
    IN  IF at = {} THEN s ELSE SubSeq(s, 1, MinOf(at) - 1)

\* the netloc urlsplit finds in url (after its scheme), <<>> if none
Netloc(url) ==
    LET rest == SubSeq(url, SchemeLen(url) + 1, Len(url))
    IN  IF StartsWith(rest, <<"/","/">>)
        THEN UpTo(SubSeq(rest, 3, Len(rest)), {"/", "?", "#"})
        ELSE <<>>

\* urlsplit raises on a netloc with an unmatched bracket
UrlRaises(url) ==
    LET n == Netloc(url)
        open == \E i \in 1..Len(n) : n[i] = "["
        close == \E i \in 1..Len(n) : n[i] = "]"
    IN  open # close

\* urlparse(url).path
UrlPath(url) ==
    LET rest == SubSeq(url, SchemeLen(url) + 1, Len(url))
        afterNet == IF StartsWith(rest, <<"/","/">>)
                    THEN SubSeq(rest, 3 + Len(Netloc(url)), Len(rest))
                    ELSE rest
    IN  UpTo(afterNet, {"?", "#"})

\* scheme://netloc of an absolute url
UrlOrigin(url) ==
    SubSeq(url, 1, SchemeLen(url)) \o <<"/","/">> \o Netloc(url)

\* the directory of the path of base: everything up to its last "/"
UrlDir(base) ==
    LET p == UrlPath(base)
        sl == {i \in 1..Len(p) : p[i] = "/"}
    IN  IF sl = {} THEN <<"/">> ELSE SubSeq(p, 1, MaxOf(sl))

\* urljoin(base, url); UrlError when it raises
Urljoin(base, url) ==
    IF url = <<>> THEN base
    ELSE IF UrlRaises(url) THEN UrlError
    ELSE IF SchemeLen(url) > 0 THEN url
    ELSE IF Netloc(url) # <<>> THEN SubSeq(base, 1, SchemeLen(base)) \o url
    ELSE IF url[1] = "/" THEN UrlOrigin(base) \o url
    ELSE IF url[1] = "?" THEN UrlOrigin(base) \o UrlPath(base) \o url
    ELSE UrlOrigin(base) \o UrlDir(base) \o url

(***************************************************************************)
(* fetch_resource: one requests.get; the network decides the outcome       *)
(***************************************************************************)
PngBytes == <<137, 80>>
\* the bytes of the stylesheet text url(i.svg)
CssBytes == <<117, 114, 108, 40, 105, 46, 115, 118, 103, 41>>
\* the bytes of a stylesheet whose text is <script>
ScriptCssBytes == <<60, 115, 99, 114, 105, 112, 116, 62>>
ErrorText == <<"4","0","4">>

\* (url, response.content, Content-Type) without the url
FetchOk(content, content_type) ==
    [content |-> content, content_type |-> content_type]

\* (url, None, str(e)) without the url
FetchFailed == [content |-> <<>>, content_type |-> ErrorText]

\* what one call of fetch_resource can return
FetchOutcomes ==
    {FetchFailed, FetchOk(PngBytes, MimePng), FetchOk(CssBytes, MimeCss),
     FetchOk(ScriptCssBytes, MimeCss)}

\* "if content:"
HasContent(res) == res.content # <<>>

(***************************************************************************)
(* save_asset_to_file                                                      *)
(***************************************************************************)
HashLen == 12
ExtLen == 10
HexDigits == <<"0","1","2","3","4","5","6","7","8","9","a","b","c","d","e","f">>

RECURSIVE Digest(_, _)
\* Stands for hashlib.md5: a deterministic digest of the bytes of its
\* argument and of nothing else (a polynomial hash in place of MD5).
Digest(bs, h) ==
    IF bs = <<>> THEN h
    ELSE Digest(Tail(bs), (h * 31 + bs[1]) % 1048576)

RECURSIVE HexOf(_, _)
\* n as k hexadecimal digits
HexOf(n, k) ==
    IF k = 0 THEN <<>>
    ELSE HexOf(n \div 16, k - 1) \o <<HexDigits[(n % 16) + 1]>>

\* hashlib.md5(url.encode()).hexdigest()[:12]
UrlHash(url) ==
    HexOf(Digest([i \in 1..Len(url) |-> ByteOfChar(url[i])], 7), HashLen)

\* s[:n]
Prefix(s, n) == SubSeq(s, 1, IF Len(s) < n THEN Len(s) ELSE n)

\* the last element of a non-empty sequence
Last(s) == s[Len(s)]

\* filename = f"{url_hash}{ext}"
AssetFilename(url) ==
    LET path_parts == SplitOn(UrlPath(url), "/")
        original_name == IF Last(path_parts) # <<>> THEN Last(path_parts)
                         ELSE <<"a","s","s","e","t">>
        ext == IF \E i \in 1..Len(original_name) : original_name[i] = "."
               THEN <<".">> \o Prefix(SplitOn(Last(SplitOn(original_name, ".")),
                                              "?")[1], ExtLen)
               ELSE <<>>
    IN  UrlHash(url) \o ext

\* the path save_asset_to_file writes and returns
\* (f"{assets_folder}/{asset_type}/{filename}")
AssetPath(url, assets_folder, asset_type) ==
    assets_folder \o <<"/">> \o asset_type \o <<"/">> \o AssetFilename(url)

AssetTypeCss == <<"c","s","s">>
AssetTypeImages == <<"i","m","a","g","e","s">>

(***************************************************************************)
(* Documents.  A document is a sequence of tags; a tag records the         *)
(* attribute values the patterns of create_standalone_html match on.  An   *)
(* attribute that is absent is <<>>: every pattern asks for a non-empty    *)
(* value ([^"']+), so an empty attribute is never matched either.          *)
(* The tags are well formed, double quoted, with each attribute at most    *)
(* once and a placeholder src written before data-src.                     *)
(***************************************************************************)
Tag(kind) ==
    [kind |-> kind,      \* link, img, source, div, script, style, comment
     href |-> <<>>,      \* <link href>, or the href named by an inlined <style>
     rel |-> FALSE,      \* rel="stylesheet"
     src |-> <<>>,       \* <img src>
     lazy |-> <<>>,      \* <img data-src>
     srcset |-> <<>>,    \* srcset of <img> or <source>
     bg |-> <<>>,        \* the url(...) inside a style="..." attribute
     on |-> FALSE,       \* an onclick="..." attribute
     loading |-> FALSE,  \* loading="lazy"
     css |-> <<>>]       \* the text of a <style> block

Link(h) == [Tag("link") EXCEPT !.href = h, !.rel = TRUE]
Img(s) == [Tag("img") EXCEPT !.src = s]
ImgLazy(s, l) == [Tag("img") EXCEPT !.src = s, !.lazy = l, !.loading = TRUE,
                                    !.on = TRUE]
ImgSrcset(ss) == [Tag("img") EXCEPT !.srcset = ss]
Source(ss) == [Tag("source") EXCEPT !.srcset = ss]
Div(u) == [Tag("div") EXCEPT !.bg = u, !.on = TRUE]
Script == Tag("script")

\* f'<style>/* Inlined: {href} */\n{css_content}</style>'
StyleBlock(h, css_content) == [Tag("style") EXCEPT !.href = h, !.css = css_content]
\* f'<link rel="stylesheet" href="{local_path}">'
LocalLink(local_path) == Link(local_path)
\* scroll_fix_css
ScrollFix == [Tag("style") EXCEPT !.css = <<"scroll-fix">>]
\* WATERMARK_HTML
Watermark == [Tag("div") EXCEPT !.css = <<"watermark">>]
\* meta_comment
MetaComment == Tag("comment")

RefAPng == <<"a",".","p","n","g">>
RefBPng == <<"b",".","p","n","g">>
RefPlaceholder == <<"p","h",".","g","i","f">>
RefACss == <<"a",".","c","s","s">>
RefBACss == <<"b","a",".","c","s","s">>
RefBCss == <<"b",".","c","s","s">>
RefACssV1 == <<"a",".","c","s","s","?","1">>
RefACssV2 == <<"a",".","c","s","s","?","2">>
RefBadHost == <<"/","/","[">>
SrcsetOne == <<"a",".","p","n","g"," ","1","x">>
SrcsetTwo == <<"a",".","p","n","g"," ","1","x",","," ",
               "b",".","p","n","g"," ","2","x">>

\* the documents handed to create_standalone_html
Documents ==
    { <<Link(RefACss)>>,
      <<Link(RefBACss), Link(RefACss)>>,
      <<Link(RefACssV1), Link(RefACssV2)>>,
      <<Link(RefACss), Link(RefBCss), Img(RefAPng)>>,
      <<Img(RefAPng), Img(RefBPng), Img(RefAPng)>>,
      <<ImgSrcset(SrcsetTwo)>>,
      <<Source(SrcsetOne)>>,
      <<Div(RefAPng)>>,
      <<Script, ImgLazy(RefPlaceholder, RefAPng), Link(RefACss)>>,
      <<Img(RefBadHost), Img(RefAPng)>>,
      <<Link(RefBadHost), Link(RefACss)>>,
      <<Div(RefBPng), ImgSrcset(SrcsetOne), Img(RefAPng)>> }

(***************************************************************************)
(* Passes 1 and 2: script / handler stripping, lazy-load normalisation     *)
(***************************************************************************)
IsNotScript(t) == t.kind # "script"

\* the three re.sub calls of step 1: <script>...</script> blocks and
\* on*="..." / on*='...' attributes are removed
RemoveScripts(doc) ==
    LET kept == SelectSeq(doc, IsNotScript)
    IN  [i \in 1..Len(kept) |-> [kept[i] EXCEPT !.on = FALSE]]

\* step 2: data-src (and the other lazy attributes) replaces src on <img>,
\* loading="lazy" is removed
NormalizeLazy(doc) ==
    [i \in 1..Len(doc) |->
        LET t == doc[i]
            promoted == IF t.kind = "img" /\ t.lazy # <<>>
                        THEN [t EXCEPT !.src = t.lazy, !.lazy = <<>>]
                        ELSE t
        IN  [promoted EXCEPT !.loading = FALSE]]

(***************************************************************************)
(* Pass 3: stylesheets                                                     *)
(***************************************************************************)
DotCss == <<".","c","s","s">>

\* the union of re.findall over stylesheet_patterns: the href of a <link>
\* with rel="stylesheet", or of a <link> whose href has ".css" after at
\* least one character
StylesheetMatches(doc) ==
    {doc[i].href : i \in {j \in 1..Len(doc) :
        /\ doc[j].kind = "link"
        /\ doc[j].href # <<>>
        /\ \/ doc[j].rel
           \/ \E k \in Occurrences(Lower(doc[j].href), DotCss) : k > 1}}

\* link_pattern built from href.split("?")[0]: does it match tag t
\* (re.IGNORECASE)
LinkPatternMatches(href, t) ==
    /\ t.kind = "link"
    /\ Contains(Lower(t.href), Lower(SplitOn(href, "?")[1]))

\* re.sub(link_pattern, replacement, html, count=1)
SubFirstLink(doc, href, replacement) ==
    LET hits == {i \in 1..Len(doc) : LinkPatternMatches(href, doc[i])}
    IN  IF hits = {} THEN doc
        ELSE [doc EXCEPT ![MinOf(hits)] = replacement]

CssUrlOpen == <<"u","r","l","(">>
Quotes == {"\"", "'"}
\* the characters the url group of url_pattern cannot contain
CssUrlStops == {"\"", "'", "(", ")", " ", "\n", "\t", "BACKSLASH"}

\* the first position >= i of s that is past the end or not in S
SkipIn(s, i, S) ==
    LET stop == {j \in i..Len(s) : s[j] \notin S}
    IN  IF stop = {} THEN Len(s) + 1 ELSE MinOf(stop)

\* the first position >= i of s that is past the end or in S
SkipTo(s, i, S) ==
    LET stop == {j \in i..Len(s) : s[j] \in S}
    IN  IF stop = {} THEN Len(s) + 1 ELSE MinOf(stop)

\* url_pattern tried at position p of s: where the url group starts and
\* ends and where the match ends (to = 0: no match at p)
CssUrlAt(s, p) ==
    LET a == SkipIn(s, p + 4, {" ", "\n", "\t"})
        b == IF a <= Len(s) /\ s[a] \in Quotes THEN a + 1 ELSE a
        c == SkipTo(s, b, CssUrlStops)
        d == IF c <= Len(s) /\ s[c] \in Quotes THEN c + 1 ELSE c
        e == SkipIn(s, d, {" ", "\n", "\t"})
    IN  IF c > b /\ e <= Len(s) /\ s[e] = ")"
        THEN [from |-> p, to |-> e, url |-> SubSeq(s, b, c - 1)]
        ELSE [from |-> p, to |-> 0, url |-> <<>>]

\* the leftmost match of url_pattern in s (to = 0: none)
CssUrlMatch(s) ==
    LET ok == {p \in Occurrences(s, CssUrlOpen) : CssUrlAt(s, p).to > 0}
    IN  IF ok = {} THEN [from |-> 0, to |-> 0, url |-> <<>>]
        ELSE CssUrlAt(s, MinOf(ok))

\* f'url("data:{mime};base64,{b64}")'
CssDataUrl(mime, content) ==
    <<"u","r","l","(","\"">> \o DataUrl(mime, content) \o <<"\"",")">>

(***************************************************************************)
(* State of one call of create_standalone_html                             *)
(***************************************************************************)
MaxRuns == 2
MaxWorkersBound == 2

Modes == {"embed", "download", "hotlink"}
AssetsFolder == <<"o","u","t">>

\* (assets_mode, assets_folder) as url_to_standalone_html passes them, and
\* download without a folder, which the signature's default allows
ModeSettings ==
    { <<"embed", <<>>>>, <<"download", AssetsFolder>>,
      <<"download", <<>>>>, <<"hotlink", <<>>>> }

NoFetch == <<>>
NoFutures == <<>>

ZeroStats ==
    [stylesheets_inlined |-> 0, images_inlined |-> 0,
     assets_downloaded |-> 0, resources_failed |-> 0]

\* the cursor of a re.sub with a callback: the tag of the next match, and,
\* inside replace_srcset / replace_source, the parts still to visit and the
\* new parts so far; inside inline_css_resources, the href being inlined,
\* the text already produced and the text still to scan
Cursor0 ==
    [i |-> 1, active |-> FALSE, todo |-> <<>>, acc |-> <<>>,
     h |-> <<>>, out |-> <<>>, rest |-> <<>>]

\* a requests.get in progress: the absolute url, and the reference it is for
\* (the tag and attribute it stands in, or the stylesheet href for a <link>
\* and for a url(...) inside that stylesheet, and the reference text)
Fetch(url, elem, attr, sheet, ref) ==
    [url |-> url, elem |-> elem, attr |-> attr, sheet |-> sheet, ref |-> ref]
\* a requests.get that has returned, and the thread that made it
Logged(f, res, by) ==
    [url |-> f.url, elem |-> f.elem, attr |-> f.attr, sheet |-> f.sheet,
     ref |-> f.ref, ok |-> HasContent(res), by |-> by]

\* errors.append(...): the message prefix and the reference it names
ErrorRecord(what, ref) == [what |-> what, ref |-> ref]

\* a counter that is set to 1 instead of being incremented
BumpToOne(st, counter) == [st EXCEPT ![counter] = 1]

\* stats[counter] += 1
Bump(st, counter) == [st EXCEPT ![counter] = @ + 1]

\* the call create_standalone_html(html=doc, ...) is entered
Enter(doc) ==
    /\ pc = "start"
    /\ input = doc
    /\ html = doc
    /\ stats = ZeroStats
    /\ errors = <<>>
    /\ futures = NoFutures
    /\ cur = Cursor0
    /\ mainFetch = NoFetch
    /\ fetchLog = <<>>
    /\ saveLog = <<>>
    /\ actor = "main"

Init ==
    /\ mimeIn = [url |-> <<>>, content_type |-> <<>>]
    /\ mimeOut = <<>>
    /\ \E ms \in ModeSettings : mode = ms[1] /\ folder = ms[2]
    /\ removeScripts \in BOOLEAN
    /\ maxWorkers \in 1..MaxWorkersBound
    /\ \E doc \in Documents : Enter(doc)
    /\ fs = <<>>
    /\ run = 1
    /\ prevOk = FALSE

\* what the coordinating thread leaves alone unless stated
MainKeeps(vs) == UNCHANGED vs /\ actor' = "main"

config == <<mode, folder, removeScripts, maxWorkers, input, run, prevOk>>

\* 1. Scripts entfernen (optional)
StripScripts ==
    /\ pc = "start"
    /\ html' = IF removeScripts THEN RemoveScripts(html) ELSE html
    /\ pc' = "lazy"
    /\ MainKeeps(<<mimeVars, config, stats, errors, futures, cur, mainFetch,
                   fetchLog, fs, saveLog>>)

\* 2. Lazy-Load Attribute konvertieren
LazyNormalize ==
    /\ pc = "lazy"
    /\ html' = NormalizeLazy(html)
    /\ pc' = "styles"
    /\ MainKeeps(<<mimeVars, config, stats, errors, futures, cur, mainFetch,
                   fetchLog, fs, saveLog>>)

\* steps 3 to 7 without the test of the mode
PassesAlwaysEnabled == TRUE

\* "if assets_mode != 'hotlink':", the test in front of steps 3 to 7
PassesEnabled == mode # "hotlink"

\* a future as executor.submit(fetch_resource, absolute_url) creates it
Submitted(url) ==
    [st |-> "queued", url |-> url, res |-> FetchFailed, repl |-> Tag("none")]

\* 3. the "if assets_mode != 'hotlink'" and "if stylesheet_matches" tests
\* fail: the pass is skipped
SkipStylesheets ==
    /\ pc = "styles"
    /\ ~PassesEnabled \/ StylesheetMatches(html) = {}
    /\ pc' = "img"
    /\ MainKeeps(<<mimeVars, config, html, stats, errors, futures, cur,
                   mainFetch, fetchLog, fs, saveLog>>)

\* 3. the submit loop: one future per distinct href.  urljoin runs outside
\* every try: when it raises for some href, the hrefs the set iteration
\* visited before it are already submitted, and the with-block waits for
\* them before the exception leaves create_standalone_html.
SubmitStylesheets ==
    /\ pc = "styles"
    /\ PassesEnabled
    /\ LET matches == StylesheetMatches(html)
           bad == {h \in matches : Urljoin(BaseUrl, h) = UrlError}
       IN  /\ matches # {}
           /\ IF bad = {}
              THEN /\ futures' = [h \in matches |-> Submitted(Urljoin(BaseUrl, h))]
                   /\ pc' = "collect"
              ELSE \E before \in SUBSET (matches \ bad) :
                   /\ futures' = [h \in before |-> Submitted(Urljoin(BaseUrl, h))]
                   /\ pc' = "unwinding"
    /\ MainKeeps(<<mimeVars, config, html, stats, errors, cur, mainFetch,
                   fetchLog, fs, saveLog>>)

Running == {h \in DOMAIN futures : futures[h].st = "running"}

\* a pool thread takes a queued future and calls fetch_resource
WorkerStart(h) ==
    /\ h \in DOMAIN futures
    /\ futures[h].st = "queued"
    /\ Cardinality(Running) < maxWorkers
    /\ futures' = [futures EXCEPT ![h].st = "running"]
    /\ actor' = "worker"
    /\ UNCHANGED <<mimeVars, config, pc, html, stats, errors, cur, mainFetch,
                   fetchLog, fs, saveLog>>

\* a pool thread that counted its own failure instead of leaving the
\* counter to the coordinating thread
WorkerFinishCounting(h, res) ==
    /\ h \in DOMAIN futures
    /\ futures[h].st = "running"
    /\ futures' = [futures EXCEPT ![h].st = "done", ![h].res = res]
    /\ fetchLog' = Append(fetchLog,
                          Logged(Fetch(futures[h].url, 0, "href", h, h), res, "worker"))
    /\ stats' = IF HasContent(res) THEN stats ELSE Bump(stats, "resources_failed")
    /\ actor' = "worker"
    /\ UNCHANGED <<mimeVars, config, pc, html, errors, cur, mainFetch,
                   fs, saveLog>>

\* fetch_resource returns in the pool thread; the future completes
WorkerFinish(h, res) ==
    /\ h \in DOMAIN futures
    /\ futures[h].st = "running"
    /\ futures' = [futures EXCEPT ![h].st = "done", ![h].res = res]
    /\ fetchLog' = Append(fetchLog,
                          Logged(Fetch(futures[h].url, 0, "href", h, h), res, "worker"))
    /\ actor' = "worker"
    /\ UNCHANGED <<mimeVars, config, pc, html, stats, errors, cur, mainFetch,
                   fs, saveLog>>

\* filepath.write_bytes(content) in save_asset_to_file
WriteFile(files, path, content) ==
    [p \in (DOMAIN files) \cup {path} |-> IF p = path THEN content ELSE files[p]]

\* a save_asset_to_file that named the file after a digest of its bytes
SaveAssetToFileByContent(content, url, assets_folder, asset_type) ==
    assets_folder \o <<"/">> \o asset_type \o <<"/">>
        \o HexOf(Digest(content, 7), HashLen)

\* save_asset_to_file(content, url, assets_folder, asset_type): the path
\* it writes and returns
SaveAssetToFile(content, url, assets_folder, asset_type) ==
    AssetPath(url, assets_folder, asset_type)

SaveRecord(content, url, asset_type) ==
    [content |-> content, url |-> url, asset_type |-> asset_type,
     path |-> SaveAssetToFile(content, url, folder, asset_type)]

\* the body of "for future in as_completed(futures)" for a completed
\* future, up to the call of inline_css_resources in embed mode
CollectFuture(h) ==
    /\ pc = "collect"
    /\ h \in DOMAIN futures
    /\ futures[h].st = "done"
    /\ LET res == futures[h].res IN
       IF ~HasContent(res)
       THEN /\ errors' = Append(errors, ErrorRecord("CSS nicht geladen", h))
            /\ stats' = Bump(stats, "resources_failed")
            /\ futures' = [futures EXCEPT ![h].st = "consumed"]
            /\ UNCHANGED <<pc, html, cur, fs, saveLog>>
       ELSE IF mode = "embed"
       THEN /\ cur' = [Cursor0 EXCEPT !.h = h, !.rest = DecodeCss(res.content)]
            /\ futures' = [futures EXCEPT ![h].st = "taken"]
            /\ pc' = "inline"
            /\ UNCHANGED <<html, stats, errors, fs, saveLog>>
       ELSE IF mode = "download" /\ folder # <<>>
       THEN \E written \in BOOLEAN :
            LET rec == SaveRecord(res.content, futures[h].url, AssetTypeCss) IN
            IF written
            THEN /\ fs' = WriteFile(fs, rec.path, res.content)
                 /\ saveLog' = Append(saveLog, rec)
                 /\ html' = SubFirstLink(html, h, LocalLink(rec.path))
                 /\ stats' = Bump(stats, "assets_downloaded")
                 /\ futures' = [futures EXCEPT ![h].st = "consumed",
                                               ![h].repl = LocalLink(rec.path)]
                 /\ UNCHANGED <<pc, errors, cur>>
            ELSE \* mkdir / write_bytes raised: except Exception as e
                 /\ errors' = Append(errors, ErrorRecord("CSS Parse-Fehler", h))
                 /\ stats' = Bump(stats, "resources_failed")
                 /\ futures' = [futures EXCEPT ![h].st = "consumed"]
                 /\ UNCHANGED <<pc, html, cur, fs, saveLog>>
       ELSE /\ futures' = [futures EXCEPT ![h].st = "consumed"]
            /\ UNCHANGED <<pc, html, stats, errors, cur, fs, saveLog>>
    /\ MainKeeps(<<mimeVars, config, mainFetch, fetchLog>>)

\* inline_css_resources, called by the coordinating thread: re.sub visits
\* the next url(...) of the stylesheet text and calls replace_url, which
\* returns the match unchanged (data:, or urljoin raised and was caught) or
\* calls fetch_resource
InlineCall ==
    /\ pc = "inline"
    /\ LET m == CssUrlMatch(cur.rest) IN
       /\ m.to > 0
       /\ LET absolute_url == Urljoin(futures[cur.h].url, m.url) IN
          IF StartsWith(m.url, DataScheme) \/ absolute_url = UrlError
          THEN /\ cur' = [cur EXCEPT !.out = @ \o SubSeq(cur.rest, 1, m.to),
                                     !.rest = SubSeq(@, m.to + 1, Len(@))]
               /\ UNCHANGED <<pc, mainFetch>>
          ELSE /\ mainFetch' = Fetch(absolute_url, 0, "cssurl", cur.h, m.url)
               /\ pc' = "inline_wait"
               /\ UNCHANGED cur
    /\ MainKeeps(<<mimeVars, config, html, stats, errors, futures, fetchLog,
                   fs, saveLog>>)

\* fetch_resource returns inside replace_url
InlineReturn(res) ==
    /\ pc = "inline_wait"
    /\ LET m == CssUrlMatch(cur.rest)
           new == IF HasContent(res)
                  THEN SubSeq(cur.rest, 1, m.from - 1)
                       \o CssDataUrl(GetMimeType(m.url, res.content_type),
                                     res.content)
                  ELSE SubSeq(cur.rest, 1, m.to)
       IN  cur' = [cur EXCEPT !.out = @ \o new,
                              !.rest = SubSeq(@, m.to + 1, Len(@))]
    /\ fetchLog' = Append(fetchLog, Logged(mainFetch, res, "main"))
    /\ mainFetch' = NoFetch
    /\ pc' = "inline"
    /\ MainKeeps(<<mimeVars, config, html, stats, errors, futures, fs, saveLog>>)

\* inline_css_resources has returned: the <style> block replaces the first
\* <link> the link pattern matches
InlineStylesheet ==
    /\ pc = "inline"
    /\ CssUrlMatch(cur.rest).to = 0
    /\ LET replacement == StyleBlock(cur.h, cur.out \o cur.rest) IN
       /\ html' = SubFirstLink(html, cur.h, replacement)
       /\ futures' = [futures EXCEPT ![cur.h].st = "consumed",
                                     ![cur.h].repl = replacement]
    /\ stats' = Bump(stats, "stylesheets_inlined")
    /\ cur' = Cursor0
    /\ pc' = "collect"
    /\ MainKeeps(<<mimeVars, config, errors, mainFetch, fetchLog, fs, saveLog>>)

\* a stylesheet pass that ended while futures were still to be consumed
EndStylesheetsEarly ==
    /\ pc = "collect"
    /\ pc' = "styles_done"
    /\ MainKeeps(<<mimeVars, config, html, stats, errors, futures, cur,
                   mainFetch, fetchLog, fs, saveLog>>)

\* as_completed is exhausted and the with-block ends
EndStylesheets ==
    /\ pc = "collect"
    /\ \A h \in DOMAIN futures : futures[h].st = "consumed"
    /\ pc' = "styles_done"
    /\ MainKeeps(<<mimeVars, config, html, stats, errors, futures, cur,
                   mainFetch, fetchLog, fs, saveLog>>)

\* step 4 begins
BeginImages ==
    /\ pc = "styles_done"
    /\ pc' = "img"
    /\ futures' = NoFutures
    /\ MainKeeps(<<mimeVars, config, html, stats, errors, cur, mainFetch,
                   fetchLog, fs, saveLog>>)

\* the with-block has waited for the submitted fetches; the ValueError of
\* urljoin leaves create_standalone_html
Unwind ==
    /\ pc = "unwinding"
    /\ \A h \in DOMAIN futures : futures[h].st = "done"
    /\ pc' = "raised"
    /\ MainKeeps(<<mimeVars, config, html, stats, errors, futures, cur,
                   mainFetch, fetchLog, fs, saveLog>>)

(***************************************************************************)
(* Passes 4 and 6: <img src> and style="...url(...)"                       *)
(***************************************************************************)
\* the tags img_pattern / style_url_pattern match, from tag i on
ImgMatches(doc, i) ==
    {j \in i..Len(doc) : doc[j].kind = "img" /\ doc[j].src # <<>>}
StyleUrlMatches(doc, i) ==
    {j \in i..Len(doc) : doc[j].bg # <<>>}

\* a pass is over: its "if assets_mode != 'hotlink'" test fails, or re.sub
\* finds no further match
PassOver(at, matches, next) ==
    /\ pc = at
    /\ ~cur.active
    /\ ~PassesEnabled \/ matches = {}
    /\ pc' = next
    /\ cur' = Cursor0
    /\ MainKeeps(<<mimeVars, config, html, stats, errors, futures, mainFetch,
                   fetchLog, fs, saveLog>>)

\* replace_image / replace_style_url up to the call of fetch_resource:
\* a data: reference is returned unchanged; urljoin is not in a try
SingleCall(at, matches, attr, wait) ==
    /\ pc = at
    /\ PassesEnabled
    /\ matches # {}
    /\ LET i == MinOf(matches)
           ref == html[i][attr]
           absolute_url == Urljoin(BaseUrl, ref)
       IN  IF StartsWith(ref, DataScheme)
           THEN /\ cur' = [cur EXCEPT !.i = i + 1]
                /\ UNCHANGED <<pc, mainFetch>>
           ELSE IF absolute_url = UrlError
           THEN /\ pc' = "raised"
                /\ UNCHANGED <<cur, mainFetch>>
           ELSE /\ mainFetch' = Fetch(absolute_url, i, attr, <<>>, ref)
                /\ cur' = [cur EXCEPT !.i = i]
                /\ pc' = wait
    /\ MainKeeps(<<mimeVars, config, html, stats, errors, futures, fetchLog,
                   fs, saveLog>>)

\* replace_image / replace_style_url from the return of fetch_resource on;
\* counted says whether a failure is recorded (replace_image only)
SingleReturn(wait, attr, back, counted, res) ==
    /\ pc = wait
    /\ fetchLog' = Append(fetchLog, Logged(mainFetch, res, "main"))
    /\ mainFetch' = NoFetch
    /\ cur' = [cur EXCEPT !.i = @ + 1]
    /\ LET i == cur.i
           ref == html[i][attr]
       IN
       IF HasContent(res) /\ mode = "embed"
       THEN /\ html' = [html EXCEPT ![i][attr] =
                           DataUrl(GetMimeType(ref, res.content_type), res.content)]
            /\ stats' = Bump(stats, "images_inlined")
            /\ pc' = back
            /\ UNCHANGED <<errors, fs, saveLog>>
       ELSE IF HasContent(res) /\ mode = "download" /\ folder # <<>>
       THEN \E written \in BOOLEAN :
            LET rec == SaveRecord(res.content, mainFetch.url, AssetTypeImages) IN
            IF written
            THEN /\ fs' = WriteFile(fs, rec.path, res.content)
                 /\ saveLog' = Append(saveLog, rec)
                 /\ html' = [html EXCEPT ![i][attr] = rec.path]
                 /\ stats' = Bump(stats, "assets_downloaded")
                 /\ pc' = back
                 /\ UNCHANGED errors
            ELSE \* mkdir / write_bytes raised, nothing catches it
                 /\ pc' = "raised"
                 /\ UNCHANGED <<html, stats, errors, fs, saveLog>>
       ELSE IF ~HasContent(res) /\ counted
       THEN /\ errors' = Append(errors, ErrorRecord("Bild nicht geladen", ref))
            /\ stats' = Bump(stats, "resources_failed")
            /\ pc' = back
            /\ UNCHANGED <<html, fs, saveLog>>
       ELSE /\ pc' = back
            /\ UNCHANGED <<html, stats, errors, fs, saveLog>>
    /\ MainKeeps(<<mimeVars, config, futures>>)

\* 4. Bilder verarbeiten (<img src>)
ImagesOver == PassOver("img", ImgMatches(html, cur.i), "srcset")
ReplaceImageCall == SingleCall("img", ImgMatches(html, cur.i), "src", "img_wait")
ReplaceImageReturn(res) == SingleReturn("img_wait", "src", "img", TRUE, res)

\* 6. Background-Images in Style-Attributen
StyleUrlsOver == PassOver("bg", StyleUrlMatches(html, cur.i), "source")
ReplaceStyleUrlCall == SingleCall("bg", StyleUrlMatches(html, cur.i), "bg", "bg_wait")
ReplaceStyleUrlReturn(res) == SingleReturn("bg_wait", "bg", "bg", FALSE, res)

(***************************************************************************)
(* Passes 5 and 7: srcset candidate lists                                  *)
(***************************************************************************)
\* the tags srcset_pattern / source_pattern match, from tag i on
SrcsetMatches(doc, i) ==
    {j \in i..Len(doc) : doc[j].srcset # <<>>}
SourceMatches(doc, i) ==
    {j \in i..Len(doc) : doc[j].kind = "source" /\ doc[j].srcset # <<>>}

\* pieces[0] and pieces[1] if len(pieces) > 1 else ''
CandidateSrc(part) == SplitWs(part)[1]
CandidateDescriptor(part) ==
    IF Len(SplitWs(part)) > 1 THEN SplitWs(part)[2] ELSE <<>>

\* f'{url} {descriptor}'.strip()
WithDescriptor(url, descriptor) == Strip(url \o <<" ">> \o descriptor)

\* re.sub reaches the next srcset attribute: replace_srcset / replace_source
\* is entered and splits the value at its commas
CandidatesEnter(at, matches) ==
    /\ pc = at
    /\ PassesEnabled
    /\ ~cur.active
    /\ matches # {}
    /\ cur' = [cur EXCEPT !.i = MinOf(matches), !.active = TRUE,
                          !.todo = SplitOn(html[MinOf(matches)].srcset, ","),
                          !.acc = <<>>]
    /\ MainKeeps(<<mimeVars, config, pc, html, stats, errors, futures,
                   mainFetch, fetchLog, fs, saveLog>>)

\* one turn of "for part in srcset.split(',')" up to the call of
\* fetch_resource: an empty part is dropped, a data: part is kept, urljoin
\* is not in a try
CandidateCall(at, wait) ==
    /\ pc = at
    /\ cur.active
    /\ cur.todo # <<>>
    /\ LET part == Strip(Head(cur.todo)) IN
       IF part = <<>>
       THEN /\ cur' = [cur EXCEPT !.todo = Tail(@)]
            /\ UNCHANGED <<pc, mainFetch>>
       ELSE IF StartsWith(CandidateSrc(part), DataScheme)
       THEN /\ cur' = [cur EXCEPT !.todo = Tail(@), !.acc = Append(@, part)]
            /\ UNCHANGED <<pc, mainFetch>>
       ELSE IF Urljoin(BaseUrl, CandidateSrc(part)) = UrlError
       THEN /\ pc' = "raised"
            /\ UNCHANGED <<cur, mainFetch>>
       ELSE /\ mainFetch' = Fetch(Urljoin(BaseUrl, CandidateSrc(part)), cur.i,
                                  "srcset", <<>>, CandidateSrc(part))
            /\ pc' = wait
            /\ UNCHANGED cur
    /\ MainKeeps(<<mimeVars, config, html, stats, errors, futures, fetchLog,
                   fs, saveLog>>)

\* the rest of the turn, from the return of fetch_resource on
CandidateReturn(wait, back, res) ==
    /\ pc = wait
    /\ fetchLog' = Append(fetchLog, Logged(mainFetch, res, "main"))
    /\ mainFetch' = NoFetch
    /\ LET part == Strip(Head(cur.todo))
           src == CandidateSrc(part)
           descriptor == CandidateDescriptor(part)
       IN
       IF HasContent(res) /\ mode = "embed"
       THEN /\ cur' = [cur EXCEPT !.todo = Tail(@), !.acc = Append(@,
                          WithDescriptor(DataUrl(GetMimeType(src, res.content_type),
                                                 res.content), descriptor))]
            /\ stats' = Bump(stats, "images_inlined")
            /\ pc' = back
            /\ UNCHANGED <<fs, saveLog>>
       ELSE IF HasContent(res) /\ mode = "download" /\ folder # <<>>
       THEN \E written \in BOOLEAN :
            LET rec == SaveRecord(res.content, mainFetch.url, AssetTypeImages) IN
            IF written
            THEN /\ fs' = WriteFile(fs, rec.path, res.content)
                 /\ saveLog' = Append(saveLog, rec)
                 /\ cur' = [cur EXCEPT !.todo = Tail(@), !.acc = Append(@,
                               WithDescriptor(rec.path, descriptor))]
                 /\ stats' = Bump(stats, "assets_downloaded")
                 /\ pc' = back
            ELSE \* mkdir / write_bytes raised, nothing catches it
                 /\ pc' = "raised"
                 /\ UNCHANGED <<cur, stats, fs, saveLog>>
       ELSE IF HasContent(res)
       THEN \* neither branch of the mode test: nothing is appended
            /\ cur' = [cur EXCEPT !.todo = Tail(@)]
            /\ pc' = back
            /\ UNCHANGED <<stats, fs, saveLog>>
       ELSE /\ cur' = [cur EXCEPT !.todo = Tail(@), !.acc = Append(@, part)]
            /\ pc' = back
            /\ UNCHANGED <<stats, fs, saveLog>>
    /\ MainKeeps(<<mimeVars, config, html, errors, futures>>)

\* the loop is over: the attribute is reassembled from the new parts, or the
\* match is returned unchanged when there are none
CandidatesLeave(at) ==
    /\ pc = at
    /\ cur.active
    /\ cur.todo = <<>>
    /\ html' = IF cur.acc # <<>>
               THEN [html EXCEPT ![cur.i].srcset = Join(cur.acc, <<",", " ">>)]
               ELSE html
    /\ cur' = [Cursor0 EXCEPT !.i = cur.i + 1]
    /\ MainKeeps(<<mimeVars, config, pc, stats, errors, futures, mainFetch,
                   fetchLog, fs, saveLog>>)

\* 5. srcset Bilder verarbeiten
SrcsetsOver == PassOver("srcset", SrcsetMatches(html, cur.i), "bg")
ReplaceSrcsetEnter == CandidatesEnter("srcset", SrcsetMatches(html, cur.i))
ReplaceSrcsetCall == CandidateCall("srcset", "srcset_wait")
ReplaceSrcsetReturn(res) == CandidateReturn("srcset_wait", "srcset", res)
ReplaceSrcsetLeave == CandidatesLeave("srcset")

\* 7. <picture><source> verarbeiten
SourcesOver == PassOver("source", SourceMatches(html, cur.i), "inject")
ReplaceSourceEnter == CandidatesEnter("source", SourceMatches(html, cur.i))
ReplaceSourceCall == CandidateCall("source", "source_wait")
ReplaceSourceReturn(res) == CandidateReturn("source_wait", "source", res)
ReplaceSourceLeave == CandidatesLeave("source")

(***************************************************************************)
(* Steps 8 to 10 and the return                                            *)
(***************************************************************************)
\* The documents of the model have no </head>, <body> or <!DOCTYPE, so the
\* scroll fix, then the watermark (include_watermark), then the meta
\* comment are each put in front of the text.
Injected(doc, include_watermark) ==
    <<MetaComment>>
    \o (IF include_watermark THEN <<Watermark>> ELSE <<>>)
    \o <<ScrollFix>> \o doc

\* 8. - 10. and "return {'html': html, 'stats': stats, 'errors': errors}"
InjectAndReturn ==
    /\ pc = "inject"
    /\ \E include_watermark \in BOOLEAN :
          html' = Injected(html, include_watermark)
    /\ pc' = "done"
    /\ MainKeeps(<<mimeVars, config, stats, errors, futures, cur, mainFetch,
                   fetchLog, fs, saveLog>>)

AllFetchesOk == \A k \in 1..Len(fetchLog) : fetchLog[k].ok

\* the returned document is handed to create_standalone_html again, with
\* the same arguments
Reconvert ==
    /\ pc = "done"
    /\ run < MaxRuns
    /\ mode = "embed"
    /\ run' = run + 1
    /\ prevOk' = AllFetchesOk
    /\ pc' = "start"
    /\ input' = html
    /\ stats' = ZeroStats
    /\ errors' = <<>>
    /\ fetchLog' = <<>>
    /\ saveLog' = <<>>
    /\ cur' = Cursor0
    /\ MainKeeps(<<mimeVars, mode, folder, removeScripts, maxWorkers, html,
                   futures, mainFetch, fs>>)

Next ==
    \/ StripScripts
    \/ LazyNormalize
    \/ SkipStylesheets
    \/ SubmitStylesheets
    \/ \E h \in DOMAIN futures : WorkerStart(h)
    \/ \E h \in DOMAIN futures, res \in FetchOutcomes : WorkerFinish(h, res)
    \/ \E h \in DOMAIN futures : CollectFuture(h)
    \/ InlineCall
    \/ \E res \in FetchOutcomes : InlineReturn(res)
    \/ InlineStylesheet
    \/ EndStylesheets
    \/ BeginImages
    \/ Unwind
    \/ ImagesOver
    \/ ReplaceImageCall
    \/ \E res \in FetchOutcomes : ReplaceImageReturn(res)
    \/ SrcsetsOver
    \/ ReplaceSrcsetEnter
    \/ ReplaceSrcsetCall
    \/ \E res \in FetchOutcomes : ReplaceSrcsetReturn(res)
    \/ ReplaceSrcsetLeave
    \/ StyleUrlsOver
    \/ ReplaceStyleUrlCall
    \/ \E res \in FetchOutcomes : ReplaceStyleUrlReturn(res)
    \/ SourcesOver
    \/ ReplaceSourceEnter
    \/ ReplaceSourceCall
    \/ \E res \in FetchOutcomes : ReplaceSourceReturn(res)
    \/ ReplaceSourceLeave
    \/ InjectAndReturn
    \/ Reconvert

Spec == Init /\ [][Next]_vars

(***************************************************************************)
(* get_mime_type on its own: the call get_mime_type(url, content_type)     *)
(* for urls a<ext>[?v=1] in lower and upper case and the content types a   *)
(* server sends                                                            *)
(***************************************************************************)
KnownExts == UNION {MimeRules[k].exts : k \in 1..Len(MimeRules)}

MimeUrls ==
    {<<"a">> \o e \o q :
        e \in KnownExts \cup {Upper(x) : x \in KnownExts}
              \cup {<<>>, <<".","b","i","n">>},
        q \in {<<>>, <<"?","v","=","1">>}}

MimeContentTypes ==
    {<<>>, MimeCss, MimeJs, MimePng, MimeJpeg, MimeGif, MimeSvg, MimeWebp,
     MimeIco, MimeWoff2, MimeWoff, MimeTtf, MimeEot, MimeOctet,
     <<"t","e","x","t","/","h","t","m","l">>,
     Upper(MimePng)}

InitMime ==
    /\ mimeIn \in [url : MimeUrls, content_type : MimeContentTypes]
    /\ mimeOut = <<>>
    /\ pc = "mime_call"
    /\ mode = "hotlink"
    /\ folder = <<>>
    /\ removeScripts = FALSE
    /\ maxWorkers = 1
    /\ input = <<>>
    /\ html = <<>>
    /\ stats = ZeroStats
    /\ errors = <<>>
    /\ futures = NoFutures
    /\ cur = Cursor0
    /\ mainFetch = NoFetch
    /\ fetchLog = <<>>
    /\ fs = <<>>
    /\ saveLog = <<>>
    /\ run = 1
    /\ prevOk = FALSE
    /\ actor = "main"

\* the call returns
Classify ==
    /\ pc = "mime_call"
    /\ mimeOut' = GetMimeType(mimeIn.url, mimeIn.content_type)
    /\ pc' = "mime_done"
    /\ UNCHANGED <<mimeIn, config, html, stats, errors, futures, cur,
                   mainFetch, fetchLog, fs, saveLog, actor>>

NextMime == Classify

SpecMime == InitMime /\ [][NextMime]_vars

(***************************************************************************)
(* Properties                                                              *)
(***************************************************************************)
\* the document at the start of step 3
Normalized(doc) ==
    NormalizeLazy(IF removeScripts THEN RemoveScripts(doc) ELSE doc)

NoFetchInFlight == mainFetch = NoFetch /\ futures = NoFutures

\* C1: in hotlink mode no fetch is ever issued, the four counters stay 0,
\* the error list stays empty, and the text is the input after script
\* stripping and lazy normalisation at every point of steps 3 to 7, and
\* that text behind the injected blocks in the returned document.
HotlinkPurity ==
    (mode = "hotlink" /\ pc \notin {"mime_call", "mime_done"}) =>
        /\ fetchLog = <<>>
        /\ NoFetchInFlight
        /\ stats = ZeroStats
        /\ errors = <<>>
        /\ pc \in {"styles", "img", "srcset", "bg", "source", "inject"}
              => html = Normalized(input)
        /\ pc = "done"
              => \E w \in BOOLEAN : html = Injected(Normalized(input), w)

\* a hotlink conversion of a document with an <img src>, a stylesheet
\* <link> and a script has returned
HotlinkPurityWitness ==
    /\ mode = "hotlink"
    /\ pc = "done"
    /\ removeScripts
    /\ \E i \in 1..Len(input) : input[i].kind = "script"
    /\ \E i \in 1..Len(input) : input[i].kind = "img" /\ input[i].lazy # <<>>
    /\ \E i \in 1..Len(html) : html[i].kind = "link" /\ html[i].href = RefACss
    /\ \E i \in 1..Len(html) : html[i].kind = "img" /\ html[i].src = RefAPng

\* C2: when every fetch of an embed conversion succeeded, converting its
\* result again in embed mode performs no fetch.
EmbedIdempotent ==
    (run > 1 /\ prevOk /\ mode = "embed") =>
        fetchLog = <<>> /\ NoFetchInFlight

\* the references of the five categories of the document
CategoryAttrs == {"href", "src", "srcset", "bg"}

FailedFetches(ref) ==
    {k \in 1..Len(fetchLog) :
        /\ ~fetchLog[k].ok
        /\ fetchLog[k].attr \in CategoryAttrs
        /\ fetchLog[k].ref = ref}

ErrorsNaming(ref) ==
    {e \in 1..Len(errors) :
        errors[e].ref = ref /\ errors[e].what # "CSS Parse-Fehler"}

\* the text of a reference is still in the place it was fetched for
StillThere(f) ==
    IF f.attr = "href"
    THEN \E i \in 1..Len(html) : html[i].kind = "link" /\ html[i].href = f.ref
    ELSE Contains(html[f.elem][f.attr], f.ref)

\* C3: when steps 3 to 7 are over, every failed fetch of a reference of
\* the five categories has left the reference text in place, has one
\* error record naming it, and has counted once in resources_failed.
PartialFailureAccounting ==
    pc = "inject" =>
        /\ \A k \in 1..Len(fetchLog) :
              (~fetchLog[k].ok /\ fetchLog[k].attr \in CategoryAttrs) =>
                 /\ StillThere(fetchLog[k])
                 /\ Cardinality(ErrorsNaming(fetchLog[k].ref))
                      = Cardinality(FailedFetches(fetchLog[k].ref))
        /\ stats.resources_failed >=
              Cardinality({k \in 1..Len(fetchLog) :
                  ~fetchLog[k].ok /\ fetchLog[k].attr \in CategoryAttrs})

\* C4: no exception raised while one match is being replaced leaves
\* create_standalone_html: the call always comes to return a document.
ExceptionContained == pc # "raised"

\* C5: in the concurrent stylesheet pass every change of the counters, of
\* the error list and of the document text is a step of the coordinating
\* thread; a pool thread only runs the fetch.
MutationsByCoordinator ==
    [][(stats' # stats \/ errors' # errors \/ html' # html)
          => actor' = "main"]_vars

\* the coordinating thread has counted a stylesheet while a pool thread is
\* still inside fetch_resource for another one
MutationsByCoordinatorWitness ==
    /\ pc = "collect"
    /\ Running # {}
    /\ stats.stylesheets_inlined + stats.assets_downloaded
          + stats.resources_failed > 0
    /\ actor = "main"

\* what step 3 should leave at place i of the document: the replacement
\* made for the href of the <link> at i (of the first <link> with that
\* href), every other tag as it was
DisjointResult(before, i) ==
    LET t == before[i] IN
    IF /\ t.kind = "link"
       /\ t.href \in DOMAIN futures
       /\ futures[t.href].repl.kind # "none"
       /\ \A j \in 1..(i - 1) : before[j].href # t.href
    THEN futures[t.href].repl
    ELSE t

\* C6: whatever the order in which the fetches completed, the stylesheet
\* pass has replaced, for each href, the <link> with that href and no other.
StylesheetSubstitutionDisjoint ==
    pc = "styles_done" =>
        html = [i \in 1..Len(html) |-> DisjointResult(Normalized(input), i)]

SameReference(f, g) ==
    f.elem = g.elem /\ f.attr = g.attr /\ f.sheet = g.sheet /\ f.ref = g.ref

\* C7: a reference whose fetch has failed is not fetched again in the same
\* conversion.
NoRetry ==
    /\ \A j, k \in 1..Len(fetchLog) :
          (j < k /\ ~fetchLog[j].ok) => ~SameReference(fetchLog[j], fetchLog[k])
    /\ mainFetch # NoFetch =>
          \A j \in 1..Len(fetchLog) :
             ~fetchLog[j].ok => ~SameReference(fetchLog[j], mainFetch)

\* the MIME type the table of get_mime_type gives for extension e
ExtensionMime(e) ==
    MimeRules[CHOOSE k \in 1..Len(MimeRules) : e \in MimeRules[k].exts].mime

\* C8: for a URL ending in a known extension the result is the MIME type
\* of that extension, whatever the content type.
ExtensionWinsOverContentType ==
    pc = "mime_done" =>
        \A e \in KnownExts :
            EndsWith(Lower(mimeIn.url), e) => mimeOut = ExtensionMime(e)

\* C9: for a URL <path>.<ext>?<query> with a known extension, in any letter
\* case, and an empty content type the result is the MIME type of that
\* extension.
QueryAndCaseTolerated ==
    (pc = "mime_done" /\ mimeIn.content_type = <<>>) =>
        \A e \in KnownExts :
            EndsWith(Lower(UpTo(mimeIn.url, {"?"})), e)
                => mimeOut = ExtensionMime(e)

\* C10: the path save_asset_to_file returns depends on the URL (with the
\* folder and the category) and not on the bytes: calls for the same URL
\* return the same path, calls for different URLs return different paths,
\* and the file at a path holds the bytes of the last call for it.
AssetPathByUrl ==
    /\ \A j, k \in 1..Len(saveLog) :
          /\ (saveLog[j].url = saveLog[k].url
                /\ saveLog[j].asset_type = saveLog[k].asset_type)
                => saveLog[j].path = saveLog[k].path
          /\ saveLog[j].url # saveLog[k].url
                => saveLog[j].path # saveLog[k].path
    /\ \A j \in 1..Len(saveLog) :
          /\ saveLog[j].path \in DOMAIN fs
          /\ (\A k \in (j + 1)..Len(saveLog) : saveLog[k].path # saveLog[j].path)
                => fs[saveLog[j].path] = saveLog[j].content

\* one URL was saved twice with different bytes, and another URL was saved
\* with the bytes of one of them
AssetPathByUrlWitness ==
    /\ \E j, k \in 1..Len(saveLog) :
          /\ j < k
          /\ saveLog[j].url = saveLog[k].url
          /\ saveLog[j].content # saveLog[k].content
    /\ \E j, k \in 1..Len(saveLog) :
          /\ saveLog[j].url # saveLog[k].url
          /\ saveLog[j].content = saveLog[k].content

\* C11: with remove_scripts the returned document holds no <script text
\* (a <script> element, or the text of a <style> block with <script in it)
\* and no on*= handler attribute, whatever the later passes have inserted.
NoScriptInResult ==
    (pc = "done" /\ removeScripts) =>
        \A i \in 1..Len(html) :
            /\ html[i].kind # "script"
            /\ ~Contains(html[i].css, <<"<","s","c","r","i","p","t">>)
            /\ ~html[i].on

\* C12: when the srcset pass is over (embed, or download with a folder),
\* every srcset has as many candidates as before, each with the descriptor
\* it had, and a candidate that was a data: reference or whose fetch failed
\* has its text unchanged.  The candidates of a srcset value are read as a
\* browser reads them: separated by a comma that white space follows (a
\* comma inside a URL separates nothing).
SrcsetCandidatesKept ==
    LET Cuts(s) == {k \in 1..(Len(s) - 1) : s[k] = "," /\ s[k + 1] = " "}
        Cut(s, j) == CHOOSE k \in Cuts(s) :
                        Cardinality({m \in Cuts(s) : m < k}) = j - 1
        Candidates(s) ==
            [j \in 1..(Cardinality(Cuts(s)) + 1) |->
                SubSeq(s,
                       IF j = 1 THEN 1 ELSE Cut(s, j - 1) + 2,
                       IF j = Cardinality(Cuts(s)) + 1 THEN Len(s)
                       ELSE Cut(s, j) - 1)]
        Failed(i, src) ==
            \E j \in 1..Len(fetchLog) :
                /\ fetchLog[j].elem = i
                /\ fetchLog[j].attr = "srcset"
                /\ fetchLog[j].ref = src
                /\ ~fetchLog[j].ok
    IN
    (pc = "bg" /\ (mode = "embed" \/ (mode = "download" /\ folder # <<>>))) =>
        \A i \in 1..Len(html) :
            LET old == Candidates(Normalized(input)[i].srcset)
                new == Candidates(html[i].srcset)
            IN  /\ Len(new) = Len(old)
                /\ \A k \in 1..Len(old) :
                      /\ CandidateDescriptor(new[k]) = CandidateDescriptor(old[k])
                      /\ (\/ StartsWith(old[k], DataScheme)
                          \/ Failed(i, CandidateSrc(old[k])))
                            => new[k] = old[k]

\* C13: when the stylesheet pass is over, every distinct href was fetched
\* once; a stylesheet whose fetch failed is still the <link> it was, has
\* one error record, and the failures are counted one by one; and in embed
\* mode the stylesheets that were fetched beside a failed one are in the
\* document.
StylesheetFailureIsolated ==
    pc = "styles_done" =>
        /\ \A h \in DOMAIN futures :
              Cardinality({k \in 1..Len(fetchLog) :
                  fetchLog[k].attr = "href" /\ fetchLog[k].sheet = h}) = 1
        /\ \A h \in DOMAIN futures :
              ~HasContent(futures[h].res) =>
                 /\ \A i \in 1..Len(html) :
                       (Normalized(input)[i].kind = "link"
                          /\ Normalized(input)[i].href = h)
                            => html[i] = Normalized(input)[i]
                 /\ Cardinality(ErrorsNaming(h)) = 1
                 /\ \A g \in DOMAIN futures :
                       (mode = "embed" /\ HasContent(futures[g].res))
                          => \E i \in 1..Len(html) : html[i] = futures[g].repl
        /\ stats.resources_failed = Len(errors)

\* C14: no fetch before lazy normalisation is applied; outside the
\* stylesheet pass no pool fetch is pending or running and every stylesheet
\* was consumed (with its substitution made, in embed mode); the
\* coordinating thread has a fetch in flight exactly while it waits inside
\* a callback, for the attribute of the pass it is in; and the fetches
\* were made in the order of the steps.  StepOf is the step a fetch belongs
\* to: 3 for a stylesheet and the url(...) inside it, 4 for <img src>, 5
\* for a srcset, 6 for a style background (0 for a <source srcset>, which
\* steps 5 and 7 both fetch).
PassesInOrder ==
    LET StepOf(f) ==
            IF f.attr \in {"href", "cssurl"} THEN 3
            ELSE IF f.attr = "src" THEN 4
            ELSE IF f.attr = "bg" THEN 6
            ELSE IF Normalized(input)[f.elem].kind = "source" THEN 0
            ELSE 5
        InOrder(f, g) ==
            (StepOf(f) # 0 /\ StepOf(g) # 0) => StepOf(f) <= StepOf(g)
        WaitingFor ==
            [img_wait |-> "src", srcset_wait |-> "srcset", bg_wait |-> "bg",
             source_wait |-> "srcset", inline_wait |-> "cssurl"]
    IN
    (pc \notin {"mime_call", "mime_done", "raised"}) =>
        /\ pc \in {"start", "lazy"} => (fetchLog = <<>> /\ NoFetchInFlight)
        /\ pc = "styles" => html = Normalized(input)
        /\ pc \notin {"collect", "inline", "inline_wait", "unwinding"} =>
              \A h \in DOMAIN futures :
                 /\ futures[h].st = "consumed"
                 /\ (mode = "embed" /\ HasContent(futures[h].res))
                       => futures[h].repl.kind = "style"
        /\ (mainFetch # NoFetch) <=> (pc \in DOMAIN WaitingFor)
        /\ mainFetch # NoFetch => mainFetch.attr = WaitingFor[pc]
        /\ \A j, k \in 1..Len(fetchLog) :
              j < k => InOrder(fetchLog[j], fetchLog[k])
        /\ mainFetch # NoFetch =>
              \A j \in 1..Len(fetchLog) : InOrder(fetchLog[j], mainFetch)

\* steps 4, 5 and 6 have fetched, in that order, for three tags that stand
\* in the opposite order in the document
PassesInOrderWitness ==
    /\ pc = "inject"
    /\ Len(fetchLog) = 3
    /\ fetchLog[1].attr = "src" /\ fetchLog[1].elem = 3
    /\ fetchLog[2].attr = "srcset" /\ fetchLog[2].elem = 2
    /\ fetchLog[3].attr = "bg" /\ fetchLog[3].elem = 1

\* C15: during the stylesheet pass at most max_workers calls of
\* fetch_resource are in flight: those of the pool threads together with
\* the url(...) fetch of the inliner in the coordinating thread.
FetchesWithinPool ==
    pc \in {"collect", "inline", "inline_wait", "unwinding"} =>
        Cardinality(Running) + (IF mainFetch # NoFetch THEN 1 ELSE 0)
            <= maxWorkers

\* C16: in download mode without assets_folder, when steps 3 to 7 are
\* over every reference that was fetched with success is still in its
\* place with its text, and nothing was counted as inlined or downloaded.
NoFolderLeavesReferences ==
    (pc = "inject" /\ mode = "download" /\ folder = <<>>) =>
        /\ \A k \in 1..Len(fetchLog) :
              (fetchLog[k].ok /\ fetchLog[k].attr \in CategoryAttrs)
                 => StillThere(fetchLog[k])
        /\ stats.stylesheets_inlined = 0
        /\ stats.images_inlined = 0
        /\ stats.assets_downloaded = 0

\* C17: within one conversion no counter ever decreases, the error list
\* only grows at its end, and resources_failed is the number of error
\* records after every step and in the returned result.
CountersAndErrorsAgree ==
    /\ [](stats.resources_failed = Len(errors))
    /\ [][run' = run =>
             /\ \A c \in DOMAIN stats : stats'[c] >= stats[c]
             /\ Len(errors') >= Len(errors)
             /\ SubSeq(errors', 1, Len(errors)) = errors]_vars

\* a conversion has returned with two failures recorded and a resource
\* inlined
CountersAndErrorsAgreeWitness ==
    /\ pc = "done"
    /\ stats.resources_failed = 2
    /\ Len(errors) = 2
    /\ stats.stylesheets_inlined + stats.images_inlined > 0

====
